---- MODULE Spec2Model ----
(***************************************************************************)
(* QKart backend: the user service (createUser, getUserById, setAddress)   *)
(* and the cart service (addProductToCart, updateProductInCart,            *)
(* deleteProductFromCart, checkout) as a state machine over the document   *)
(* store.  Every request runs in its own process; a process is suspended   *)
(* at every `await`, so one step of the model is one persistence           *)
(* operation together with the synchronous code that follows it up to the  *)
(* next `await`.  Documents held by a request are private copies; save     *)
(* writes the whole copy back over the stored document with the same id.   *)
(***************************************************************************)
EXTENDS Integers, Sequences, FiniteSets, TLC

\* ------------------------------------------------------------------ bounds
\* Requests issued in one behaviour of Spec (two concurrent processes).
MaxReq == 3
\* Requests issued in one behaviour of SpecSeq (one process).
MaxReqSeq == 5
\* Requests issued in one behaviour of SpecShop (two concurrent processes).
MaxReqShop == 3
\* Largest quantity a request passes.
MaxQty == 2

Procs == {1, 2}
Emails == {"a@qkart", "b@qkart"}
Quantities == 0..MaxQty

\* --------------------------------------------------- configuration, catalog
\* config.default_wallet_money / config.default_address / default payment
DefaultWalletMoney == 500
DefaultAddress == "ADDRESS_NOT_SET"
DefaultPaymentOption == "PAYMENT_OPTION_DEFAULT"
Addresses == {DefaultAddress, "12 Baker Street, London"}

\* The products collection: never written by the services.
Products == {[id |-> "p1", cost |-> 200], [id |-> "p2", cost |-> 300],
             [id |-> "p3", cost |-> 100]}
NoProduct == [id |-> "", cost |-> 0]
\* Ids a request may name: ids of the catalog and one that is in no catalog.
RequestProductIds == {"p1", "p2", "p9"}
RequestProductIdsSeq == {"p1", "p2", "p3", "p9"}

\* http-status
OK == "OK"
BAD_REQUEST == "BAD_REQUEST"
NOT_FOUND == "NOT_FOUND"
INTERNAL_SERVER_ERROR == "INTERNAL_SERVER_ERROR"

\* ------------------------------------------------------------------- values
NoUser == [id |-> 0, email |-> "", walletMoney |-> 0, address |-> ""]
NoCart == [id |-> 0, email |-> "", cartItems |-> <<>>, paymentOption |-> ""]
NoOp == [name |-> "", email |-> "", productId |-> "", quantity |-> 0, address |-> ""]

NoResult == [kind |-> "none", status |-> "", message |-> ""]
Returned == [kind |-> "return", status |-> "", message |-> ""]
ApiError(status, message) == [kind |-> "ApiError", status |-> status, message |-> message]
\* A rejection of the persistence layer that the service does not catch.
StoreError == [kind |-> "Error", status |-> "", message |-> "persistence"]
\* The rejection of a create() that violates a unique index.
DuplicateKey == [kind |-> "Error", status |-> "", message |-> "duplicate key"]

VARIABLES
  users,      \* the users collection: a sequence of documents, _id = index
  carts,      \* the carts collection: a sequence of documents, _id = index
  pc,         \* pc[p]: where request p is suspended ("idle": no request)
  op,         \* op[p]: the request p is running or ran last
  user,       \* user[p]: the request's User document (a private copy)
  cart,       \* cart[p]: the request's Cart document (a private copy)
  total,      \* total[p]: checkout's `total`
  result,     \* result[p]: how p's last request ended
  writes,     \* writes[p]: persistence writes p's request has performed
  nreq,       \* requests issued so far
  debited,    \* history: ids of users a checkout's user.save() has written
  checkedOut  \* history: ids of users for whom a checkout has returned

vars == <<users, carts, pc, op, user, cart, total, result, writes, nreq, debited, checkedOut>>

\* No request has run yet.
Idle ==
  /\ pc = [p \in Procs |-> "idle"]
  /\ op = [p \in Procs |-> NoOp]
  /\ user = [p \in Procs |-> NoUser]
  /\ cart = [p \in Procs |-> NoCart]
  /\ total = [p \in Procs |-> 0]
  /\ result = [p \in Procs |-> NoResult]
  /\ writes = [p \in Procs |-> 0]
  /\ nreq = 0
  /\ debited = {}
  /\ checkedOut = {}

\* The store as the process starts: empty.
InitSeq ==
  /\ users = <<>>
  /\ carts = <<>>
  /\ Idle

\* The store after one createUser has returned: one registered user, with the
\* default wallet and the default address, and no cart.
Init ==
  /\ users = <<[id |-> 1, email |-> "a@qkart", walletMoney |-> DefaultWalletMoney,
                address |-> DefaultAddress]>>
  /\ carts = <<>>
  /\ Idle

\* The store after createUser, setAddress and two addProductToCart calls have
\* returned: one user with an address set and the default wallet, whose cart
\* holds one of p1 and one of p2; their total is the whole wallet.
InitShop ==
  /\ users = <<[id |-> 1, email |-> "a@qkart", walletMoney |-> DefaultWalletMoney,
                address |-> "12 Baker Street, London"]>>
  /\ carts = <<[id |-> 1, email |-> "a@qkart",
                cartItems |-> <<[product |-> [id |-> "p1", cost |-> 200], quantity |-> 1],
                                [product |-> [id |-> "p2", cost |-> 300], quantity |-> 1]>>,
                paymentOption |-> DefaultPaymentOption]>>
  /\ Idle

\* ------------------------------------------------------- control helpers
\* The request goes on to its next await with its documents u, c and total t.
Continue(p, label, u, c, t) ==
  /\ pc' = [pc EXCEPT ![p] = label]
  /\ user' = [user EXCEPT ![p] = u]
  /\ cart' = [cart EXCEPT ![p] = c]
  /\ total' = [total EXCEPT ![p] = t]
  /\ UNCHANGED <<op, result>>

\* The request ends, by a throw (an ApiError, a store error) or a return; its
\* documents and arguments are dropped.
Finish(p, res) ==
  /\ pc' = [pc EXCEPT ![p] = "idle"]
  /\ op' = [op EXCEPT ![p] = [NoOp EXCEPT !.name = op[p].name, !.email = op[p].email]]
  /\ result' = [result EXCEPT ![p] = res]
  /\ user' = [user EXCEPT ![p] = NoUser]
  /\ cart' = [cart EXCEPT ![p] = NoCart]
  /\ total' = [total EXCEPT ![p] = 0]

Wrote(p) == writes' = [writes EXCEPT ![p] = @ + 1]

\* ------------------------------------------------ persistence collaborator
\* findOne({ email }) on a collection: the first matching document or null.
FindByEmail(coll, email, none) ==
  IF \E i \in DOMAIN coll : coll[i].email = email
    THEN coll[CHOOSE i \in DOMAIN coll :
                /\ coll[i].email = email
                /\ \A j \in DOMAIN coll : coll[j].email = email => i <= j]
    ELSE none

\* The unique index on email that create() enforces.
UniqueEmail(coll, email) == \A i \in DOMAIN coll : coll[i].email # email

\* document.save(): the whole document replaces the stored one with its _id.
SaveDoc(coll, doc) == [coll EXCEPT ![doc.id] = doc]

\* Product.findOne({ _id: productId })
ProductFindOne(productId) ==
  IF \E pr \in Products : pr.id = productId
    THEN CHOOSE pr \in Products : pr.id = productId
    ELSE NoProduct

\* ---------------------------------------------------------- user service
\* User.isEmailTaken(email)
isEmailTaken(email) == FindByEmail(users, email, NoUser) # NoUser

\* Faulty variant: the email check is skipped.
createUser_noEmailCheck(p, max) ==
  /\ pc[p] = "idle"
  /\ nreq < max
  /\ \E email \in Emails :
       op' = [op EXCEPT ![p] = [NoOp EXCEPT !.name = "createUser", !.email = email]]
  /\ pc' = [pc EXCEPT ![p] = "createUser_create"]
  /\ result' = [result EXCEPT ![p] = NoResult]
  /\ nreq' = nreq + 1
  /\ writes' = [writes EXCEPT ![p] = 0]
  /\ UNCHANGED <<users, carts, user, cart, total, debited, checkedOut>>

\* createUser, line 45-47: the email check and the Conflict it throws.
createUser_isEmailTaken(p, max) ==
  /\ pc[p] = "idle"
  /\ nreq < max
  /\ \E email \in Emails :
       /\ op' = [op EXCEPT ![p] = [NoOp EXCEPT !.name = "createUser", !.email = email]]
       /\ IF isEmailTaken(email)
            THEN /\ pc' = pc
                 /\ result' = [result EXCEPT ![p] = ApiError(OK, "Email already taken")]
            ELSE /\ pc' = [pc EXCEPT ![p] = "createUser_create"]
                 /\ result' = [result EXCEPT ![p] = NoResult]
  /\ UNCHANGED <<user, cart, total>>
  /\ nreq' = nreq + 1
  /\ writes' = [writes EXCEPT ![p] = 0]
  /\ UNCHANGED <<users, carts, debited, checkedOut>>

\* createUser, line 48-49: User.create(userBody).
createUser_create(p) ==
  /\ pc[p] = "createUser_create"
  /\ IF UniqueEmail(users, op[p].email)
       THEN \/ /\ users' = Append(users, [id |-> Len(users) + 1, email |-> op[p].email,
                                          walletMoney |-> DefaultWalletMoney,
                                          address |-> DefaultAddress])
               /\ Wrote(p)
               /\ Finish(p, Returned)
            \/ /\ Finish(p, StoreError)
               /\ UNCHANGED <<users, writes>>
       ELSE /\ Finish(p, DuplicateKey)
            /\ UNCHANGED <<users, writes>>
  /\ UNCHANGED <<carts, nreq, debited, checkedOut>>

\* The requests that reach the services for a loaded user, each with only the
\* arguments its operation takes.
Requests(email, productIds) ==
  LET r(name, productId, quantity, address) ==
        [name |-> name, email |-> email, productId |-> productId,
         quantity |-> quantity, address |-> address]
  IN {r("setAddress", "", 0, a) : a \in Addresses}
     \cup {r("addProductToCart", x[1], x[2], "") : x \in productIds \X Quantities}
     \cup {r("updateProductInCart", x[1], x[2], "") : x \in productIds \X Quantities}
     \cup {r("deleteProductFromCart", i, 0, "") : i \in productIds}
     \cup {r("checkout", "", 0, ""), r("getCartByUser", "", 0, "")}

\* getUserById: the caller loads the User document it then passes to the
\* operation it calls; the operation starts at its first line.
getUserById(p, max, productIds) ==
  /\ pc[p] = "idle"
  /\ nreq < max
  /\ \E id \in DOMAIN users :
       \E r \in Requests(users[id].email, productIds) :
         /\ op' = [op EXCEPT ![p] = r]
         /\ pc' = [pc EXCEPT ![p] = r.name]
         /\ user' = [user EXCEPT ![p] = users[id]]
  /\ nreq' = nreq + 1
  /\ result' = [result EXCEPT ![p] = NoResult]
  /\ writes' = [writes EXCEPT ![p] = 0]
  /\ UNCHANGED <<users, carts, cart, total, debited, checkedOut>>

\* Faulty variant: the document saved is rebuilt from the address alone, so its wallet
\* is the schema default.
setAddress_rebuilt(p) ==
  /\ pc[p] = "setAddress"
  /\ \/ /\ users' = SaveDoc(users, [user[p] EXCEPT !.address = op[p].address,
                                                   !.walletMoney = 0])
        /\ Wrote(p)
        /\ Finish(p, Returned)
     \/ /\ Finish(p, StoreError)
        /\ UNCHANGED <<users, writes>>
  /\ UNCHANGED <<carts, nreq, debited, checkedOut>>

\* setAddress, line 68-73.
setAddress(p) ==
  /\ pc[p] = "setAddress"
  /\ \/ /\ users' = SaveDoc(users, [user[p] EXCEPT !.address = op[p].address])
        /\ Wrote(p)
        /\ Finish(p, Returned)
     \/ /\ Finish(p, StoreError)
        /\ UNCHANGED <<users, writes>>
  /\ UNCHANGED <<carts, nreq, debited, checkedOut>>

\* ---------------------------------------------------------- cart service
\* Cart.findOne({ email: user.email })
CartFindOne(email) == FindByEmail(carts, email, NoCart)

\* getCartByUser, line 19-26.
getCartByUser(p) ==
  /\ pc[p] = "getCartByUser"
  /\ IF CartFindOne(user[p].email) = NoCart
       THEN Finish(p, ApiError(NOT_FOUND, "User does not have a cart"))
       ELSE Finish(p, Returned)
  /\ UNCHANGED <<users, carts, writes, nreq, debited, checkedOut>>

\* The scan of lines 77-82 (149-154, 191-196): the index of the last item whose
\* product id is productId.  Indexes count from 1 here, so the code's
\* productIndex is this minus 1 and its -1 is 0.
RECURSIVE productIndexFrom(_, _, _, _)
productIndexFrom(cartItems, productId, i, productIndex) ==
  IF i > Len(cartItems) THEN productIndex
  ELSE productIndexFrom(cartItems, productId, i + 1,
                        IF cartItems[i].product.id = productId THEN i ELSE productIndex)

\* Faulty variant: the scan starts at the second item (let i = 1).
findProductIndex_fromSecond(cartItems, productId) == productIndexFrom(cartItems, productId, 2, 0)

findProductIndex(cartItems, productId) == productIndexFrom(cartItems, productId, 1, 0)

\* Faulty variant: splice(productIndex + 1, 1), the item after the match.
splice_next(cartItems, productIndex) ==
  [i \in 1..(Len(cartItems) - 1) |->
     IF i <= productIndex /\ productIndex < Len(cartItems) THEN cartItems[i] ELSE cartItems[i + 1]]

\* cartItems.splice(productIndex, 1)
splice(cartItems, productIndex) ==
  [i \in 1..(Len(cartItems) - 1) |->
     IF i < productIndex THEN cartItems[i] ELSE cartItems[i + 1]]

\* Faulty variant: a quantity below 1 is stored as 1.
push_atLeastOne(cartItems, product, quantity) ==
  Append(cartItems, [product |-> product, quantity |-> IF quantity < 1 THEN 1 ELSE quantity])

\* cartItems.push({ product: product, quantity: quantity })
push(cartItems, product, quantity) ==
  Append(cartItems, [product |-> product, quantity |-> quantity])

\* Faulty variant: the scan's result is ignored and the product is added again.
addProductToCart_scan_noConflict(p, c) ==
  Continue(p, "addProductToCart_findProduct", user[p], c, 0)

\* addProductToCart, line 76-90, as far as the next await: the scan and the
\* Conflict it throws.
addProductToCart_scan(p, c) ==
  IF findProductIndex(c.cartItems, op[p].productId) # 0
    THEN Finish(p, ApiError(BAD_REQUEST,
           "Product already in cart. Use the cart sidebar to update or remove product from cart"))
    ELSE Continue(p, "addProductToCart_findProduct", user[p], c, 0)

\* Faulty variant: the product is looked up in the catalog before the cart is read
\* or created.
addProductToCart_findOne_productFirst(p) ==
  /\ pc[p] = "addProductToCart"
  /\ LET c == CartFindOne(user[p].email)
     IN IF ProductFindOne(op[p].productId) = NoProduct
          THEN Finish(p, ApiError(BAD_REQUEST, "Product doesn't exist in database"))
          ELSE IF c = NoCart
            THEN Continue(p, "addProductToCart_create", user[p], NoCart, 0)
            ELSE addProductToCart_scan(p, c)
  /\ UNCHANGED <<users, carts, writes, nreq, debited, checkedOut>>

\* addProductToCart, line 53-55.
addProductToCart_findOne(p) ==
  /\ pc[p] = "addProductToCart"
  /\ LET c == CartFindOne(user[p].email)
     IN IF c = NoCart
          THEN Continue(p, "addProductToCart_create", user[p], NoCart, 0)
          ELSE addProductToCart_scan(p, c)
  /\ UNCHANGED <<users, carts, writes, nreq, debited, checkedOut>>

\* Faulty variant: a cart is inserted without the create() whose unique index rejects
\* a second cart of the email.
addProductToCart_create_insert(p) ==
  /\ pc[p] = "addProductToCart_create"
  /\ LET doc == [id |-> Len(carts) + 1, email |-> user[p].email,
                 cartItems |-> <<>>, paymentOption |-> DefaultPaymentOption]
     IN /\ carts' = Append(carts, doc)
        /\ Wrote(p)
        /\ addProductToCart_scan(p, doc)
  /\ UNCHANGED <<users, nreq, debited, checkedOut>>

\* addProductToCart, line 56-75: Cart.create and the InternalError of its
\* catch.  create() resolves to the new document or rejects, so the null check
\* of line 70 never throws.
addProductToCart_create(p) ==
  /\ pc[p] = "addProductToCart_create"
  /\ LET failed == /\ Finish(p, ApiError(INTERNAL_SERVER_ERROR,
                          "User cart creation failed because user already have a cart"))
                   /\ UNCHANGED <<carts, writes>>
     IN IF UniqueEmail(carts, user[p].email)
          THEN \/ LET doc == [id |-> Len(carts) + 1, email |-> user[p].email,
                              cartItems |-> <<>>, paymentOption |-> DefaultPaymentOption]
                  IN /\ carts' = Append(carts, doc)
                     /\ Wrote(p)
                     /\ addProductToCart_scan(p, doc)
               \/ failed
          ELSE failed
  /\ UNCHANGED <<users, nreq, debited, checkedOut>>

\* addProductToCart, line 91-101: the catalog lookup and the push.
addProductToCart_findProduct(p) ==
  /\ pc[p] = "addProductToCart_findProduct"
  /\ LET product == ProductFindOne(op[p].productId)
     IN IF product = NoProduct
          THEN Finish(p, ApiError(BAD_REQUEST, "Product doesn't exist in database"))
          ELSE Continue(p, "addProductToCart_save", user[p],
                        [cart[p] EXCEPT !.cartItems = push(@, product, op[p].quantity)], 0)
  /\ UNCHANGED <<users, carts, writes, nreq, debited, checkedOut>>

\* Faulty variant: the save merges: stored items the document lacks are kept.
cart_save_merge(p) ==
  /\ \/ /\ LET stored == carts[cart[p].id].cartItems
               Kept(item) == findProductIndex(cart[p].cartItems, item.product.id) = 0
           IN carts' = SaveDoc(carts, [cart[p] EXCEPT !.cartItems = SelectSeq(stored, Kept) \o @])
        /\ Wrote(p)
        /\ Finish(p, Returned)
     \/ /\ Finish(p, StoreError)
        /\ UNCHANGED <<carts, writes>>
  /\ UNCHANGED <<users, nreq, debited>>

\* cart.save() and the return that follows it (lines 103-104, 163-164, 205,
\* 244-246).
cart_save(p) ==
  /\ \/ /\ carts' = SaveDoc(carts, cart[p])
        /\ Wrote(p)
        /\ Finish(p, Returned)
     \/ /\ Finish(p, StoreError)
        /\ UNCHANGED <<carts, writes>>
  /\ UNCHANGED <<users, nreq, debited>>

addProductToCart_save(p) ==
  /\ pc[p] = "addProductToCart_save"
  /\ cart_save(p)
  /\ UNCHANGED checkedOut

\* updateProductInCart, line 132-138.
updateProductInCart_findOne(p) ==
  /\ pc[p] = "updateProductInCart"
  /\ LET c == CartFindOne(user[p].email)
     IN IF c = NoCart
          THEN Finish(p, ApiError(BAD_REQUEST,
                 "User does not have a cart. Use POST to create cart and add a product"))
          ELSE Continue(p, "updateProductInCart_findProduct", user[p], c, 0)
  /\ UNCHANGED <<users, carts, writes, nreq, debited, checkedOut>>

\* Faulty variant: a product that is not in the cart is added to it (an upsert).
updateProductInCart_upsert(p) ==
  /\ pc[p] = "updateProductInCart_findProduct"
  /\ LET product == ProductFindOne(op[p].productId)
         productIndex == findProductIndex(cart[p].cartItems, op[p].productId)
     IN IF product = NoProduct
          THEN Finish(p, ApiError(BAD_REQUEST, "Product doesn't exist in database"))
          ELSE Continue(p, "updateProductInCart_save", user[p],
                 [cart[p] EXCEPT !.cartItems =
                    IF productIndex = 0 THEN push(@, product, op[p].quantity)
                    ELSE [@ EXCEPT ![productIndex].quantity = op[p].quantity]], 0)
  /\ UNCHANGED <<users, carts, writes, nreq, debited, checkedOut>>

\* Faulty variant: the quantity passed is added to the item's quantity.
updateProductInCart_increment(p) ==
  /\ pc[p] = "updateProductInCart_findProduct"
  /\ LET product == ProductFindOne(op[p].productId)
         productIndex == findProductIndex(cart[p].cartItems, op[p].productId)
     IN IF product = NoProduct
          THEN Finish(p, ApiError(BAD_REQUEST, "Product doesn't exist in database"))
          ELSE IF productIndex = 0
            THEN Finish(p, ApiError(BAD_REQUEST, "Product not in cart"))
            ELSE Continue(p, "updateProductInCart_save", user[p],
                   [cart[p] EXCEPT !.cartItems[productIndex].quantity = @ + op[p].quantity], 0)
  /\ UNCHANGED <<users, carts, writes, nreq, debited, checkedOut>>

\* updateProductInCart, line 140-161.
updateProductInCart_findProduct(p) ==
  /\ pc[p] = "updateProductInCart_findProduct"
  /\ LET product == ProductFindOne(op[p].productId)
         productIndex == findProductIndex(cart[p].cartItems, op[p].productId)
     IN IF product = NoProduct
          THEN Finish(p, ApiError(BAD_REQUEST, "Product doesn't exist in database"))
          ELSE IF productIndex = 0
            THEN Finish(p, ApiError(BAD_REQUEST, "Product not in cart"))
            ELSE Continue(p, "updateProductInCart_save", user[p],
                   [cart[p] EXCEPT !.cartItems[productIndex].quantity = op[p].quantity], 0)
  /\ UNCHANGED <<users, carts, writes, nreq, debited, checkedOut>>

updateProductInCart_save(p) ==
  /\ pc[p] = "updateProductInCart_save"
  /\ cart_save(p)
  /\ UNCHANGED checkedOut

\* deleteProductFromCart, line 185-203.
deleteProductFromCart_findOne(p) ==
  /\ pc[p] = "deleteProductFromCart"
  /\ LET c == CartFindOne(user[p].email)
         productIndex == findProductIndex(c.cartItems, op[p].productId)
     IN IF c = NoCart
          THEN Finish(p, ApiError(BAD_REQUEST, "User does not have a cart"))
          ELSE IF productIndex = 0
            THEN Finish(p, ApiError(BAD_REQUEST, "Product not in cart. "))
            ELSE Continue(p, "deleteProductFromCart_save", user[p],
                   [c EXCEPT !.cartItems = splice(@, productIndex)], 0)
  /\ UNCHANGED <<users, carts, writes, nreq, debited, checkedOut>>

deleteProductFromCart_save(p) ==
  /\ pc[p] = "deleteProductFromCart_save"
  /\ cart_save(p)
  /\ UNCHANGED checkedOut

\* user.hasSetNonDefaultAddress()
hasSetNonDefaultAddress(u) == u.address # DefaultAddress

\* checkout, line 227-230: the loop that sums cost * quantity.
RECURSIVE totalFrom(_, _, _)
totalFrom(cartItems, i, acc) ==
  IF i > Len(cartItems) THEN acc
  ELSE totalFrom(cartItems, i + 1, acc + cartItems[i].product.cost * cartItems[i].quantity)

\* Faulty variant: the loop stops one item short (i < length - 1).
cartTotal_shortLoop(cartItems) ==
  totalFrom(SubSeq(cartItems, 1, Len(cartItems) - 1), 1, 0)

cartTotal(cartItems) == totalFrom(cartItems, 1, 0)

\* checkout, line 210-218.
checkout_findOne(p) ==
  /\ pc[p] = "checkout"
  /\ LET c == CartFindOne(user[p].email)
     IN IF c = NoCart
          THEN Finish(p, ApiError(NOT_FOUND, "User does not have a cart"))
          ELSE IF Len(c.cartItems) = 0
            THEN Finish(p, ApiError(BAD_REQUEST, "Cart is empty"))
            ELSE Continue(p, "checkout_address", user[p], c, 0)
  /\ UNCHANGED <<users, carts, writes, nreq, debited, checkedOut>>

\* Faulty variant: the wallet check comes before the address check.
checkout_address_walletFirst(p) ==
  /\ pc[p] = "checkout_address"
  /\ LET t == cartTotal(cart[p].cartItems)
     IN IF t > user[p].walletMoney
          THEN Finish(p, ApiError(BAD_REQUEST, "User has insufficient money to process"))
          ELSE IF ~hasSetNonDefaultAddress(user[p])
            THEN Finish(p, ApiError(BAD_REQUEST, "Address not set"))
            ELSE Continue(p, "checkout_saveUser",
                          [user[p] EXCEPT !.walletMoney = @ - t], cart[p], t)
  /\ UNCHANGED <<users, carts, writes, nreq, debited, checkedOut>>

\* Faulty variant: the total is not compared with the wallet.
checkout_address_noWalletCheck(p) ==
  /\ pc[p] = "checkout_address"
  /\ IF ~hasSetNonDefaultAddress(user[p])
       THEN Finish(p, ApiError(BAD_REQUEST, "Address not set"))
       ELSE LET t == cartTotal(cart[p].cartItems)
            IN Continue(p, "checkout_saveUser",
                        [user[p] EXCEPT !.walletMoney = @ - t], cart[p], t)
  /\ UNCHANGED <<users, carts, writes, nreq, debited, checkedOut>>

\* checkout, line 221-240: the address check, the total, the wallet check and
\* the debit of the request's own User document.
checkout_address(p) ==
  /\ pc[p] = "checkout_address"
  /\ IF ~hasSetNonDefaultAddress(user[p])
       THEN Finish(p, ApiError(BAD_REQUEST, "Address not set"))
       ELSE LET t == cartTotal(cart[p].cartItems)
            IN IF t > user[p].walletMoney
                 THEN Finish(p, ApiError(BAD_REQUEST, "User has insufficient money to process"))
                 ELSE Continue(p, "checkout_saveUser",
                               [user[p] EXCEPT !.walletMoney = @ - t], cart[p], t)
  /\ UNCHANGED <<users, carts, writes, nreq, debited, checkedOut>>

\* Faulty variant: the cart's items are not cleared before the cart is saved.
checkout_saveUser_keepItems(p) ==
  /\ pc[p] = "checkout_saveUser"
  /\ \/ /\ users' = SaveDoc(users, user[p])
        /\ Wrote(p)
        /\ debited' = debited \cup {user[p].id}
        /\ Continue(p, "checkout_saveCart", user[p], cart[p], total[p])
     \/ /\ Finish(p, StoreError)
        /\ UNCHANGED <<users, writes, debited>>
  /\ UNCHANGED <<carts, nreq, checkedOut>>

\* Faulty variant: the two writes are swapped: the cleared cart is saved first.
checkout_saveUser_clearFirst(p) ==
  /\ pc[p] = "checkout_saveUser"
  /\ \/ /\ carts' = SaveDoc(carts, [cart[p] EXCEPT !.cartItems = <<>>])
        /\ Wrote(p)
        /\ Continue(p, "checkout_saveCart", user[p],
                    [cart[p] EXCEPT !.cartItems = <<>>], total[p])
     \/ /\ Finish(p, StoreError)
        /\ UNCHANGED <<carts, writes>>
  /\ UNCHANGED <<users, nreq, debited, checkedOut>>

\* checkout, line 241-243: user.save(), then the cart's items are cleared.
checkout_saveUser(p) ==
  /\ pc[p] = "checkout_saveUser"
  /\ \/ /\ users' = SaveDoc(users, user[p])
        /\ Wrote(p)
        /\ debited' = debited \cup {user[p].id}
        /\ Continue(p, "checkout_saveCart", user[p],
                    [cart[p] EXCEPT !.cartItems = <<>>], total[p])
     \/ /\ Finish(p, StoreError)
        /\ UNCHANGED <<users, writes, debited>>
  /\ UNCHANGED <<carts, nreq, checkedOut>>

\* Faulty variant: a rejected cart.save() is compensated: the debit is taken back.
checkout_saveCart_rollback(p) ==
  /\ pc[p] = "checkout_saveCart"
  /\ \/ /\ carts' = SaveDoc(carts, cart[p])
        /\ Wrote(p)
        /\ Finish(p, Returned)
        /\ checkedOut' = checkedOut \cup {user[p].id}
        /\ UNCHANGED users
     \/ /\ Finish(p, StoreError)
        /\ users' = SaveDoc(users, [user[p] EXCEPT !.walletMoney = @ + total[p]])
        /\ UNCHANGED <<carts, writes, checkedOut>>
  /\ UNCHANGED <<nreq, debited>>

\* checkout, line 244-246: cart.save() and the return.
checkout_saveCart(p) ==
  /\ pc[p] = "checkout_saveCart"
  /\ cart_save(p)
  /\ checkedOut' = IF result'[p] = Returned THEN checkedOut \cup {user[p].id} ELSE checkedOut

\* One step of request p: max bounds the requests issued, productIds the
\* product ids they name.
Step(p, max, productIds) ==
  \/ createUser_isEmailTaken(p, max)
  \/ createUser_create(p)
  \/ getUserById(p, max, productIds)
  \/ setAddress(p)
  \/ getCartByUser(p)
  \/ addProductToCart_findOne(p)
  \/ addProductToCart_create(p)
  \/ addProductToCart_findProduct(p)
  \/ addProductToCart_save(p)
  \/ updateProductInCart_findOne(p)
  \/ updateProductInCart_findProduct(p)
  \/ updateProductInCart_save(p)
  \/ deleteProductFromCart_findOne(p)
  \/ deleteProductFromCart_save(p)
  \/ checkout_findOne(p)
  \/ checkout_address(p)
  \/ checkout_saveUser(p)
  \/ checkout_saveCart(p)

\* Requests of two processes, interleaved at every await.
Next == \E p \in Procs : Step(p, MaxReq, RequestProductIds)

Spec == Init /\ [][Next]_vars

\* One process: each request ends before the next starts.
NextSeq == Step(1, MaxReqSeq, RequestProductIdsSeq)

SpecSeq == InitSeq /\ [][NextSeq]_vars

\* Requests of two processes, interleaved at every await, on a store with a
\* cart ready for checkout.
NextShop == \E p \in Procs : Step(p, MaxReqShop, RequestProductIds)

SpecShop == InitShop /\ [][NextShop]_vars

\* ------------------------------------------------------------ properties
\* The items of cartItems that reference productId, counted.
Count(cartItems, productId) ==
  Cardinality({i \in DOMAIN cartItems : cartItems[i].product.id = productId})

\* The stored carts of an email (their ids).
CartsOf(email) == {i \in DOMAIN carts : carts[i].email = email}

AlreadyInCart ==
  ApiError(BAD_REQUEST,
    "Product already in cart. Use the cart sidebar to update or remove product from cart")

\* C1: a successful addProductToCart leaves the product exactly once in the
\* stored cart, and an addProductToCart that finds the product in the user's
\* cart throws the "already in cart" error, whatever the quantity, and writes
\* nothing: the stored carts stay as they are.
C1_AddOnceThenConflict ==
  [][\A p \in Procs :
       /\ (pc[p] = "addProductToCart_save" /\ result'[p] = Returned)
            => /\ carts'[cart[p].id].email = user[p].email
               /\ Count(carts'[cart[p].id].cartItems, op[p].productId) = 1
       /\ (/\ pc[p] = "addProductToCart"
           /\ pc'[p] # pc[p]
           /\ \E i \in CartsOf(user[p].email) : Count(carts[i].cartItems, op[p].productId) > 0)
            => /\ result'[p] = AlreadyInCart
               /\ pc'[p] = "idle"
               /\ writes'[p] = 0
               /\ carts' = carts
               /\ users' = users]_vars

\* C1 witness: an add was refused as "already in cart" and the product is in
\* the stored cart once.
C1_Witness ==
  \E p \in Procs :
    /\ result[p] = AlreadyInCart
    /\ \E i \in CartsOf(op[p].email) :
         \E x \in RequestProductIds : Count(carts[i].cartItems, x) = 1

\* C2: no cart holds two items that reference the same product.
C2_NoDuplicateProducts ==
  \A i \in DOMAIN carts :
    \A j, k \in DOMAIN carts[i].cartItems :
      j # k => carts[i].cartItems[j].product.id # carts[i].cartItems[k].product.id

\* C2 witness: two adds of one product for one user interleave: one has saved
\* and returned, the other read the cart before that and is about to save.
C2_Witness ==
  \E p, q \in Procs :
    /\ p # q
    /\ pc[p] = "idle" /\ op[p].name = "addProductToCart" /\ result[p] = Returned
    /\ pc[q] = "addProductToCart_save" /\ op[q].email = op[p].email
    /\ \E i \in CartsOf(op[q].email) : Count(carts[i].cartItems, op[q].productId) = 1

\* The sum of cost * quantity over the items, in no particular order.
RECURSIVE SumOver(_, _)
SumOver(cartItems, I) ==
  IF I = {} THEN 0
  ELSE LET i == CHOOSE j \in I : TRUE
       IN cartItems[i].product.cost * cartItems[i].quantity + SumOver(cartItems, I \ {i})

SumCostQuantity(cartItems) == SumOver(cartItems, DOMAIN cartItems)

Insufficient == ApiError(BAD_REQUEST, "User has insufficient money to process")
CartIsEmpty == ApiError(BAD_REQUEST, "Cart is empty")
NoCartFound == ApiError(NOT_FOUND, "User does not have a cart")
AddressNotSet == ApiError(BAD_REQUEST, "Address not set")

\* C3: a checkout that has passed the cart, non-empty and address checks
\* compares the sum of cost * quantity over the stored cart's items with the
\* stored wallet balance: if the sum is greater it throws "insufficient money"
\* and writes nothing (users and carts stay as they are); otherwise that sum is
\* its total and the amount by which user.save() lowers the stored balance.
C3_CheckoutTotal ==
  [][\A p \in Procs :
       LET stored == users[user[p].id]
           sum == SumCostQuantity(carts[cart[p].id].cartItems)
       IN /\ (/\ pc[p] = "checkout_address"
              /\ pc'[p] # pc[p]
              /\ stored.address # DefaultAddress)
               => IF sum > stored.walletMoney
                    THEN /\ result'[p] = Insufficient
                         /\ pc'[p] = "idle"
                         /\ writes'[p] = 0
                         /\ users' = users
                         /\ carts' = carts
                    ELSE /\ pc'[p] = "checkout_saveUser"
                         /\ total'[p] = sum
          /\ (pc[p] = "checkout_saveUser" /\ pc'[p] = "checkout_saveCart")
               => /\ total[p] = sum
                  /\ users'[user[p].id].walletMoney = stored.walletMoney - sum]_vars

\* C3 witness: a checkout of a two-item cart was refused for insufficient
\* money; the wallet still holds the default credit.
C3_Witness ==
  \E p \in Procs :
    /\ op[p].name = "checkout" /\ result[p] = Insufficient
    /\ \E i \in CartsOf(op[p].email) : Len(carts[i].cartItems) = 2
    /\ \E i \in DOMAIN users :
         users[i].email = op[p].email /\ users[i].walletMoney = DefaultWalletMoney

\* C4: a checkout that succeeds lowers the stored balance by the sum of
\* cost * quantity over the stored items (at user.save()), then empties the
\* stored cart without removing it (at cart.save()); from then on
\* getCartByUser for that user returns the cart, and a checkout that finds the
\* cart empty throws "Cart is empty", not NotFound.
C4_CheckoutSuccess ==
  [][\A p \in Procs :
       /\ (pc[p] = "checkout_saveUser" /\ pc'[p] = "checkout_saveCart")
            => /\ users'[user[p].id].walletMoney =
                    users[user[p].id].walletMoney - SumCostQuantity(carts[cart[p].id].cartItems)
               /\ carts' = carts
       /\ (pc[p] = "checkout_saveCart" /\ result'[p] = Returned)
            => /\ SumCostQuantity(carts[cart[p].id].cartItems) = total[p]
               /\ Len(carts[cart[p].id].cartItems) > 0
               /\ users' = users
               /\ Len(carts') = Len(carts)
               /\ carts'[cart[p].id].email = user[p].email
               /\ carts'[cart[p].id].cartItems = <<>>
               /\ \A i \in DOMAIN carts : i # cart[p].id => carts'[i] = carts[i]
       /\ (pc[p] = "getCartByUser" /\ pc'[p] # pc[p] /\ user[p].id \in checkedOut)
            => result'[p] = Returned
       /\ (pc[p] = "checkout" /\ pc'[p] # pc[p] /\ user[p].id \in checkedOut)
            => result'[p] # NoCartFound
       /\ (/\ pc[p] = "checkout"
           /\ pc'[p] # pc[p]
           /\ \E i \in CartsOf(user[p].email) : carts[i].cartItems = <<>>)
            => result'[p] = CartIsEmpty]_vars

\* C4 witness: after a checkout that returned and debited the wallet, a
\* second checkout of the same user was refused with "Cart is empty".
C4_Witness ==
  \E p \in Procs :
    /\ op[p].name = "checkout" /\ result[p] = CartIsEmpty
    /\ \E i \in checkedOut :
         /\ users[i].email = op[p].email
         /\ users[i].walletMoney < DefaultWalletMoney
         /\ \E c \in CartsOf(users[i].email) : carts[c].cartItems = <<>>

EmailTaken == ApiError(OK, "Email already taken")

\* C5: createUser called with an email a stored user has throws "Email already
\* taken" and writes nothing, and no two stored users ever share an email,
\* however createUser calls interleave.
C5_EmailUnique ==
  /\ [](\A i, j \in DOMAIN users : users[i].email = users[j].email => i = j)
  /\ [][\A p \in Procs :
          (/\ createUser_isEmailTaken(p, MaxReq)
           /\ \E i \in DOMAIN users : users[i].email = op'[p].email)
            => /\ result'[p] = EmailTaken
               /\ pc'[p] = "idle"
               /\ writes'[p] = 0
               /\ users' = users]_vars

\* C5 witness: two createUser calls for one email interleaved: both passed
\* the email check, one created the user and the other's create was rejected.
C5_Witness ==
  \E p, q \in Procs :
    /\ p # q
    /\ op[p].name = "createUser" /\ pc[p] = "idle" /\ result[p] = Returned
    /\ op[q].name = "createUser" /\ pc[q] = "idle" /\ result[q] = DuplicateKey
    /\ op[p].email = op[q].email
    /\ Cardinality({i \in DOMAIN users : users[i].email = op[p].email}) = 1

\* The items that do not reference productId, in their order.
Without(cartItems, productId) ==
  LET Other(item) == item.product.id # productId
  IN SelectSeq(cartItems, Other)

NotInCartOnDelete == ApiError(BAD_REQUEST, "Product not in cart. ")

\* C6: a deleteProductFromCart that succeeds removes from the stored cart the
\* one item that references the product and leaves the other items, their
\* quantities and their order as they were; a deleteProductFromCart for a
\* product that is not in the user's cart throws "Product not in cart" and
\* leaves the stored carts as they were.
C6_DeleteOne ==
  [][\A p \in Procs :
       /\ (pc[p] = "deleteProductFromCart_save" /\ result'[p] = Returned)
            => LET old == carts[cart[p].id].cartItems
                   new == carts'[cart[p].id].cartItems
               IN /\ Count(old, op[p].productId) = 1
                  /\ Len(new) = Len(old) - 1
                  /\ new = Without(old, op[p].productId)
                  /\ \A i \in DOMAIN carts : i # cart[p].id => carts'[i] = carts[i]
       /\ (/\ pc[p] = "deleteProductFromCart"
           /\ pc'[p] # pc[p]
           /\ \E i \in CartsOf(user[p].email) : Count(carts[i].cartItems, op[p].productId) = 0)
            => /\ result'[p] = NotInCartOnDelete
               /\ pc'[p] = "idle"
               /\ writes'[p] = 0
               /\ carts' = carts]_vars

\* C6 witness: a delete returned and left two of three items in the cart.
C6_Witness ==
  \E p \in Procs :
    /\ op[p].name = "deleteProductFromCart" /\ pc[p] = "idle" /\ result[p] = Returned
    /\ \E i \in CartsOf(op[p].email) : Len(carts[i].cartItems) = 2

\* C7: an updateProductInCart whose product is not among the items of the
\* user's cart throws a BAD_REQUEST error and writes nothing: the stored
\* carts and users stay as they are.
C7_UpdateAbsent ==
  [][\A p \in Procs :
       /\ (pc[p] = "updateProductInCart" /\ pc'[p] # pc[p])
            => /\ carts' = carts
               /\ users' = users
               /\ pc'[p] = "updateProductInCart_findProduct"
                    => cart'[p].id \in CartsOf(user[p].email) /\ cart'[p] = carts[cart'[p].id]
       /\ (/\ pc[p] = "updateProductInCart_findProduct"
           /\ pc'[p] # pc[p]
           /\ Count(cart[p].cartItems, op[p].productId) = 0)
            => /\ result'[p].kind = "ApiError"
               /\ result'[p].status = BAD_REQUEST
               /\ pc'[p] = "idle"
               /\ writes[p] = 0 /\ writes'[p] = 0
               /\ carts' = carts
               /\ users' = users]_vars

\* C7 witness: an update of a catalog product was refused as "not in cart"
\* while the user's cart holds another product.
C7_Witness ==
  \E p \in Procs :
    /\ result[p] = ApiError(BAD_REQUEST, "Product not in cart")
    /\ \E i \in CartsOf(op[p].email) : Len(carts[i].cartItems) > 0

CartCreationFailed ==
  ApiError(INTERNAL_SERVER_ERROR, "User cart creation failed because user already have a cart")

\* C8: no two stored carts share an email; an addProductToCart that saw no
\* cart and reaches Cart.create when the email has a cart by then throws the
\* InternalError and creates nothing.
C8_OneCartPerEmail ==
  /\ [](\A i, j \in DOMAIN carts : carts[i].email = carts[j].email => i = j)
  /\ [][\A p \in Procs :
          (/\ pc[p] = "addProductToCart_create"
           /\ pc'[p] # pc[p]
           /\ CartsOf(user[p].email) # {})
            => /\ result'[p] = CartCreationFailed
               /\ pc'[p] = "idle"
               /\ carts' = carts]_vars

\* C8 witness: two adds of one user both saw no cart; one created the cart
\* and is still running, the other's creation failed.
C8_Witness ==
  \E p, q \in Procs :
    /\ p # q
    /\ op[p].name = "addProductToCart" /\ pc[p] = "idle" /\ result[p] = CartCreationFailed
    /\ pc[q] = "addProductToCart_findProduct" /\ writes[q] = 1
    /\ user[q].email = op[p].email
    /\ Cardinality(CartsOf(op[p].email)) = 1

\* The stored user of an email and the stored cart of an email.
StoredUser(email) == users[CHOOSE i \in DOMAIN users : users[i].email = email]
StoredCart(email) == carts[CHOOSE i \in CartsOf(email) : TRUE]

\* C9: a checkout that throws an ApiError has written nothing, and the error
\* is that of the first check that fails, in the order: no cart (NOT_FOUND),
\* no items ("Cart is empty"), default address ("Address not set"), total
\* greater than the wallet ("insufficient money"); a checkout that got past
\* the address check, or returned, is for a user whose address is not the
\* default.
C9_CheckoutOrder ==
  \A p \in Procs :
    /\ (pc[p] = "idle" /\ op[p].name = "checkout" /\ result[p].kind = "ApiError")
         => /\ writes[p] = 0
            /\ result[p] =
                 IF CartsOf(op[p].email) = {} THEN NoCartFound
                 ELSE IF StoredCart(op[p].email).cartItems = <<>> THEN CartIsEmpty
                 ELSE IF StoredUser(op[p].email).address = DefaultAddress THEN AddressNotSet
                 ELSE Insufficient
            /\ result[p] = Insufficient
                 => SumCostQuantity(StoredCart(op[p].email).cartItems)
                      > StoredUser(op[p].email).walletMoney
    /\ (\/ pc[p] \in {"checkout_saveUser", "checkout_saveCart"}
        \/ pc[p] = "idle" /\ op[p].name = "checkout" /\ result[p] = Returned)
         => StoredUser(op[p].email).address # DefaultAddress

\* C9 witness: a checkout was refused with "Address not set" although the
\* total of its cart is also greater than the wallet.
C9_Witness ==
  \E p \in Procs :
    /\ op[p].name = "checkout" /\ pc[p] = "idle" /\ result[p] = AddressNotSet
    /\ SumCostQuantity(StoredCart(op[p].email).cartItems) > StoredUser(op[p].email).walletMoney

C11_Original ==
  pc[1] = "checkout_saveUser"
    => ENABLED (/\ NextSeq
                /\ carts'[cart[1].id].cartItems = <<>>
                /\ users' = users)

\* C11, amended: a checkout that a failure of the store has stopped has
\* written at most once; if it has written, the write is the debit and the
\* items are still in the stored cart: no stopped checkout leaves the cart
\* cleared. If it has not written, the user is not debited by it and the
\* items are in the cart as well.
C11_StoppedCheckout ==
  \A p \in Procs :
    (pc[p] = "idle" /\ op[p].name = "checkout" /\ result[p] = StoreError)
      => /\ writes[p] \in {0, 1}
         /\ StoredCart(op[p].email).cartItems # <<>>
         /\ writes[p] = 1 => StoredUser(op[p].email).id \in debited
         /\ StoredUser(op[p].email).id \notin debited => writes[p] = 0

\* C11 witness: a checkout was stopped between its two writes: the wallet is
\* lowered by the total of the items, which are still in the stored cart.
C11_Witness ==
  \E p \in Procs :
    /\ pc[p] = "idle" /\ op[p].name = "checkout" /\ result[p] = StoreError
    /\ writes[p] = 1
    /\ StoredCart(op[p].email).cartItems # <<>>
    /\ StoredUser(op[p].email).walletMoney =
         DefaultWalletMoney - SumCostQuantity(StoredCart(op[p].email).cartItems)
    /\ StoredUser(op[p].email).walletMoney < DefaultWalletMoney

\* C12: within one checkout the debit is persisted before the cart is
\* cleared: the step that saves the debit lowers the stored wallet by the
\* total and leaves the stored cart and its items as they are; at the step
\* that saves the cleared cart the stored wallet already is the debited one
\* and stays so; if that save is rejected the stored cart keeps its items and
\* the debit is not taken back.
C12_DebitBeforeClear ==
  [][\A p \in Procs :
       /\ (pc[p] = "checkout_saveUser" /\ pc'[p] = "checkout_saveCart")
            => /\ users'[user[p].id].walletMoney = users[user[p].id].walletMoney - total[p]
               /\ carts' = carts
               /\ carts[cart[p].id].cartItems # <<>>
       /\ (pc[p] = "checkout_saveCart" /\ pc'[p] # pc[p])
            => /\ user[p].id \in debited
               /\ users[user[p].id].walletMoney = user[p].walletMoney
               /\ carts[cart[p].id].cartItems # <<>>
               /\ users' = users
               /\ result'[p] \in {Returned, StoreError}
               /\ result'[p] = Returned => carts'[cart[p].id].cartItems = <<>>
               /\ result'[p] = StoreError => carts' = carts]_vars

\* C12 witness: a checkout is between its two writes: the stored wallet is
\* lowered by the total and the stored cart still holds the items.
C12_Witness ==
  \E p \in Procs :
    /\ pc[p] = "checkout_saveCart"
    /\ total[p] > 0
    /\ users[user[p].id].walletMoney = DefaultWalletMoney - total[p]
    /\ Len(carts[cart[p].id].cartItems) = 2

\* The ids of the catalog.
ProductIds == {pr.id : pr \in Products}

\* C13: the save of an addProductToCart is never refused for what another
\* request has saved since the cart was read; when it succeeds the stored
\* cart is the saving request's document, whole: an item that another add has
\* saved meanwhile, and that this document lacks, is no longer in the cart.
C13_LastWriterWins ==
  [][\A p \in Procs :
       (pc[p] = "addProductToCart_save" /\ pc'[p] # pc[p])
         => /\ result'[p] \in {Returned, StoreError}
            /\ result'[p] = Returned
                 => /\ carts'[cart[p].id] = cart[p]
                    /\ \A x \in ProductIds :
                         Count(cart[p].cartItems, x) = 0
                           => Count(carts'[cart[p].id].cartItems, x) = 0]_vars

\* C13 witness: two adds of one user for different products both read the
\* cart before either saved; one has saved its item and returned, the other
\* is about to save a document that lacks that item.
C13_Witness ==
  \E p, q \in Procs :
    /\ p # q
    /\ pc[p] = "idle" /\ op[p].name = "addProductToCart" /\ result[p] = Returned
    /\ pc[q] = "addProductToCart_save" /\ op[q].email = op[p].email
    /\ \E x \in ProductIds :
         /\ x # op[q].productId
         /\ carts[cart[q].id].cartItems = <<[product |-> ProductFindOne(x), quantity |-> 1]>>
         /\ Count(cart[q].cartItems, x) = 0
         /\ Count(cart[q].cartItems, op[q].productId) = 1

\* C14 as stated: every item of every stored cart has a quantity of at least
\* 1.
C14_Original ==
  \A i \in DOMAIN carts :
    \A j \in DOMAIN carts[i].cartItems : carts[i].cartItems[j].quantity >= 1

\* C14, amended: the quantity of a stored item is the quantity that the
\* addProductToCart or updateProductInCart that wrote it was passed: a
\* successful add stores its product last in the cart with the quantity it
\* was passed, a successful update stores the quantity it was passed, and an
\* item with a quantity below 1 comes into a stored cart only by the save of
\* an add or update that was passed that quantity for that product.
C14_QuantityAsPassed ==
  [][/\ \A p \in Procs :
          LET items == carts'[cart[p].id].cartItems
          IN /\ (pc[p] = "addProductToCart_save" /\ result'[p] = Returned)
                  => /\ items[Len(items)].product.id = op[p].productId
                     /\ items[Len(items)].quantity = op[p].quantity
             /\ (pc[p] = "updateProductInCart_save" /\ result'[p] = Returned)
                  => \A j \in DOMAIN items :
                       items[j].product.id = op[p].productId
                         => items[j].quantity = op[p].quantity
     /\ \A i \in DOMAIN carts' :
          \A j \in DOMAIN carts'[i].cartItems :
            LET item == carts'[i].cartItems[j]
            IN item.quantity < 1
                 => \/ /\ i \in DOMAIN carts
                       /\ \E k \in DOMAIN carts[i].cartItems : carts[i].cartItems[k] = item
                    \/ \E p \in Procs :
                         /\ pc[p] \in {"addProductToCart_save", "updateProductInCart_save"}
                         /\ cart[p].id = i
                         /\ op[p].productId = item.product.id
                         /\ op[p].quantity = item.quantity]_vars

\* C14 witness: an update has returned and the stored cart holds an item
\* with the quantity 0, as an add or update was passed it, and an item with a
\* quantity of at least 1.
C14_Witness ==
  \E p \in Procs :
    /\ pc[p] = "idle" /\ op[p].name = "updateProductInCart" /\ result[p] = Returned
    /\ LET items == StoredCart(op[p].email).cartItems
       IN /\ \E j \in DOMAIN items : items[j].quantity = 0
          /\ \E j \in DOMAIN items : items[j].quantity >= 1

ProductMissing == ApiError(BAD_REQUEST, "Product doesn't exist in database")
NoCartOnUpdate ==
  ApiError(BAD_REQUEST, "User does not have a cart. Use POST to create cart and add a product")

\* C16: an addProductToCart for a user without a cart creates the empty cart
\* before it looks the product up; when the product id is not in the catalog
\* it then throws the BAD_REQUEST error and the cart stays stored: after an
\* add that failed so the user has a cart. With a cart stored, getCartByUser
\* returns and updateProductInCart does not throw its "no cart" error.
C16_FailedAddKeepsCart ==
  /\ [](\A p \in Procs :
          (pc[p] = "idle" /\ op[p].name = "addProductToCart" /\ result[p] = ProductMissing)
            => CartsOf(op[p].email) # {})
  /\ [][\A p \in Procs :
          /\ (pc[p] = "addProductToCart_create" /\ pc'[p] = "addProductToCart_findProduct")
               => /\ CartsOf(user[p].email) = {}
                  /\ carts' = Append(carts, [id |-> Len(carts) + 1, email |-> user[p].email,
                                             cartItems |-> <<>>,
                                             paymentOption |-> DefaultPaymentOption])
                  /\ writes'[p] = 1
          /\ (/\ pc[p] = "addProductToCart_findProduct"
              /\ pc'[p] # pc[p]
              /\ op[p].productId \notin ProductIds)
               => /\ result'[p] = ProductMissing
                  /\ pc'[p] = "idle"
                  /\ writes'[p] = writes[p]
                  /\ carts' = carts
                  /\ users' = users
                  /\ CartsOf(user[p].email) # {}
          /\ (pc[p] = "getCartByUser" /\ pc'[p] # pc[p] /\ CartsOf(user[p].email) # {})
               => result'[p] = Returned
          /\ (pc[p] = "updateProductInCart" /\ pc'[p] # pc[p] /\ CartsOf(user[p].email) # {})
               => result'[p] # NoCartOnUpdate /\ pc'[p] = "updateProductInCart_findProduct"]_vars

\* C16 witness: an add for a product that is in no catalog has failed after
\* its one write, the creation of the cart; the user's stored cart is empty.
C16_Witness ==
  \E p \in Procs :
    /\ pc[p] = "idle" /\ op[p].name = "addProductToCart" /\ result[p] = ProductMissing
    /\ writes[p] = 1
    /\ StoredCart(op[p].email).cartItems = <<>>

\* C17: the stored wallet of every user is never negative, however cart
\* operations and checkouts interleave, checkouts on stale copies of the user
\* and of the cart included.
C17_WalletNonNegative ==
  \A i \in DOMAIN users : users[i].walletMoney >= 0

\* C17 witness: two checkouts of one user, the only requests issued, have
\* both returned: each read the user and the cart before the other wrote and
\* each debited its own copy by the whole wallet; the stored wallet is 0 and
\* the cart is empty.
C17_Witness ==
  \E p, q \in Procs :
    /\ p # q
    /\ nreq = 2
    /\ pc[p] = "idle" /\ op[p].name = "checkout" /\ result[p] = Returned
    /\ pc[q] = "idle" /\ op[q].name = "checkout" /\ result[q] = Returned
    /\ op[p].email = op[q].email
    /\ StoredUser(op[p].email).walletMoney = 0
    /\ StoredCart(op[p].email).cartItems = <<>>
====
